---------------------------- MODULE Spec2Model ----------------------------
(***************************************************************************)
(* A model of the tx3 Rust SDK:                                            *)
(*   - tii: Protocol::invoke and the Invocation argument binding           *)
(*     (sdk/src/tii/mod.rs, sdk/src/tii/spec.rs);                          *)
(*   - trp: the JSON-RPC error conversion and Client::call                 *)
(*     (sdk/src/trp/mod.rs).                                               *)
(*                                                                         *)
(* Parameter names are sequences of ASCII codes so that to_lowercase is    *)
(* computed character by character.  JSON values are tagged records.       *)
(***************************************************************************)
EXTENDS Integers, Sequences, FiniteSets, TLC

VARIABLES
    tii,        \* which TII file the Protocol was loaded from (Protocol.spec = TiiFiles[tii])
    inv,        \* the Invocation under construction, or NoInvocation
    invokeRes,  \* the call of Protocol::invoke made and its outcome
    ops,        \* number of mutations applied to inv (bounded by MaxOps)
    readLog,    \* results of the reads made since the last mutation
    filterRuns, \* times unspecified_params evaluated its filter since then
    lastOp,     \* history: the last mutation of inv (and the binding a set_arg/with_arg gave)
    request,    \* the ResolveParams produced by into_resolve_request
    rpcError,   \* a JsonRpcError handed to Error::from
    converted,  \* the trp Error it was converted to
    client,     \* the Client's options
    calls       \* the invocations of Client::call / resolve / submit, by slot

tiiVars == <<tii, inv, invokeRes, ops, readLog, filterRuns, lastOp, request>>
errVars == <<rpcError, converted>>
callVars == <<client, calls>>
vars == <<tiiVars, errVars, callVars>>

-----------------------------------------------------------------------------
(* Bounds *)

MaxOps == 2
MaxReads == 2
MaxMapSize == 2
MaxCalls == 2

-----------------------------------------------------------------------------
(* Strings with case: sequences of ASCII codes *)

\* char::to_lowercase restricted to ASCII: 'A'..'Z' -> 'a'..'z'
CharToLower(c) == IF c \in 65..90 THEN c + 32 ELSE c

\* str::to_lowercase
to_lowercase(s) == [i \in DOMAIN s |-> CharToLower(s[i])]

\* input generators (not part of the program)
Capitalized(s) == [i \in DOMAIN s |-> IF i = 1 /\ s[i] \in 97..122 THEN s[i] - 32 ELSE s[i]]

sender    == <<115, 101, 110, 100, 101, 114>>
receiver  == <<114, 101, 99, 101, 105, 118, 101, 114>>
middleman == <<109, 105, 100, 100, 108, 101, 109, 97, 110>>
quantity  == <<113, 117, 97, 110, 116, 105, 116, 121>>
tax       == <<116, 97, 120>>

-----------------------------------------------------------------------------
(* Maps (HashMap / serde_json::Map): functions with a finite domain *)

EmptyMap == <<>>

\* HashMap::extend / Map::extend: entries of n overwrite those of m
Extend(m, n) == [k \in DOMAIN m \cup DOMAIN n |-> IF k \in DOMAIN n THEN n[k] ELSE m[k]]

\* HashMap::insert / Map::insert
Insert(m, k, v) == Extend(m, k :> v)

Absent == [k |-> "absent"]
Some(v) == [k |-> "some", v |-> v]

-----------------------------------------------------------------------------
(* TII files *)

\* schemars Schema, as far as invoke reads it: the object validation part
\* (absent when the schema document states no object keyword) and, for a
\* property, its $ref and its single instance type.
TypeDecl(ref, ty) == [reference |-> ref, instance_type |-> ty]
ObjectSchema(props) == [object |-> Some(props)]
NoObjectSchema == [object |-> Absent]

RefBytes   == "https://tx3.land/specs/v1beta0/core#Bytes"
RefAddress == "https://tx3.land/specs/v1beta0/core#Address"
RefUtxoRef == "https://tx3.land/specs/v1beta0/core#UtxoRef"

TirA == [content |-> "a1", encoding |-> "hex", version |-> "v1beta0"]
TirB == [content |-> "b2", encoding |-> "hex", version |-> "v1beta0"]

\* examples/transfer.tii.json as the unit test of tii/mod.rs describes it:
\* five parameters, profile preview binding tax.
TransferTii ==
    [ parties |-> {sender, receiver, middleman},
      environment |-> Some(ObjectSchema(tax :> TypeDecl("", "integer"))),
      transactions |-> [transfer |-> [tir |-> TirA,
                                      params |-> ObjectSchema(quantity :> TypeDecl("", "integer"))]],
      profiles |-> [preview |-> [environment |-> Some(tax :> 7)]] ]

\* the same protocol written with capitalised names in every section
MixedCaseTii ==
    [ parties |-> {Capitalized(sender), Capitalized(receiver)},
      environment |-> Some(ObjectSchema(Capitalized(tax) :> TypeDecl("", "integer"))),
      transactions |-> [transfer |-> [tir |-> TirB,
                                      params |-> ObjectSchema(Capitalized(quantity) :> TypeDecl(RefBytes, ""))]],
      profiles |-> [preview |-> [environment |-> Some(Capitalized(tax) :> 7)]] ]

\* a file with a parameterless transaction, a badly typed one, and a profile
\* without an environment object
OddTii ==
    [ parties |-> {sender},
      environment |-> Absent,
      transactions |-> [transfer |-> [tir |-> TirA,
                                      params |-> ObjectSchema(quantity :> TypeDecl(RefAddress, ""))],
                        noparams |-> [tir |-> TirB, params |-> NoObjectSchema],
                        badtype  |-> [tir |-> TirB,
                                      params |-> ObjectSchema(quantity :> TypeDecl("", "string"))]],
      profiles |-> [preview |-> [environment |-> Absent]] ]

TiiFiles == [transfer |-> TransferTii, mixedcase |-> MixedCaseTii, odd |-> OddTii]

TxNames == {"transfer", "noparams", "badtype", "missing"}
ProfileNames == {"preview", "missing"}

-----------------------------------------------------------------------------
(* ParamType::from_json_schema and params_from_schema *)

Ok(v) == [tag |-> "ok", v |-> v]
Err(e) == [tag |-> "err", e |-> e]
Panic == [tag |-> "panic"]

from_json_type(instance_type) ==
    CASE instance_type = "integer" -> Ok("Integer")
      [] instance_type = "boolean" -> Ok("Boolean")
      [] OTHER -> Err("InvalidParamType")

from_json_schema(schema) ==
    IF schema.reference # ""
    THEN CASE schema.reference = RefBytes   -> Ok("Bytes")
           [] schema.reference = RefAddress -> Ok("Address")
           [] schema.reference = RefUtxoRef -> Ok("UtxoRef")
           [] OTHER -> Err("InvalidParamType")
    ELSE IF schema.instance_type # ""
    THEN IF schema.instance_type = "vec"
         THEN Err("InvalidParamType")
         ELSE from_json_type(schema.instance_type)
    ELSE Err("InvalidParamType")

\* Option::unwrap of the object part aborts when it is absent; the first
\* property whose type is not supported ends the loop with its error.
params_from_schema(schema) ==
    IF schema.object = Absent THEN Panic
    ELSE LET props == schema.object.v IN
         IF \E key \in DOMAIN props : from_json_schema(props[key]).tag = "err"
         THEN Err("InvalidParamType")
         ELSE Ok([key \in DOMAIN props |-> from_json_schema(props[key]).v])

-----------------------------------------------------------------------------
(* Invocation *)

NoInvocation == [k |-> "absent"]
Invocation(tir, params, args) == [k |-> "some", tir |-> tir, params |-> params, args |-> args]

\* a set_args that replaces the binding instead of extending it
ReplaceArgs(i, args) == [i EXCEPT !.args = args]

\* Invocation::set_args / with_args: Map::extend with the keys as given
set_args(i, args) == [i EXCEPT !.args = Extend(@, args)]

\* Invocation::set_arg / with_arg: insert under the lower-cased name
set_arg(i, name, value) == [i EXCEPT !.args = Insert(@, to_lowercase(name), value)]

\* Invocation::params
params(i) == i.params

\* Invocation::unspecified_params
unspecified_params(i) ==
    [k \in {p \in DOMAIN i.params : p \notin DOMAIN i.args} |-> i.params[k]]

\* Invocation::into_resolve_request
into_resolve_request(i) == [tir |-> i.tir, args |-> i.args]

\* Protocol::invoke, as a value: Ok(Invocation), Err(error) or Panic
PartyParams(file) == [p \in {to_lowercase(n) : n \in file.parties} |-> "Address"]

invoke(file, tx, profile) ==
    IF tx \notin DOMAIN file.transactions THEN Err("UnknownTx")
    ELSE IF profile # Absent /\ profile.v \notin DOMAIN file.profiles THEN Err("UnknownProfile")
    ELSE
      LET t == file.transactions[tx]
          envParams == IF file.environment = Absent THEN Ok(EmptyMap)
                       ELSE params_from_schema(file.environment.v)
          txParams == params_from_schema(t.params)
      IN  IF envParams.tag # "ok" THEN envParams
          ELSE IF txParams.tag # "ok" THEN txParams
          ELSE
            LET out == Invocation(t.tir,
                                  Extend(Extend(PartyParams(file), envParams.v), txParams.v),
                                  EmptyMap)
            IN  IF profile # Absent /\ file.profiles[profile.v].environment # Absent
                THEN Ok(set_args(out, file.profiles[profile.v].environment.v))
                ELSE Ok(out)

-----------------------------------------------------------------------------
(* Inputs of the mutators *)

Values == {1, 2}

ArgNames == {sender, Capitalized(sender), quantity, Capitalized(quantity), Capitalized(tax)}

\* whole maps handed to set_args / with_args
MapNames == {sender, Capitalized(sender), Capitalized(tax)}

ArgMaps == UNION {[S -> Values] : S \in {T \in SUBSET MapNames : Cardinality(T) \in 1..MaxMapSize}}

-----------------------------------------------------------------------------
(* Actions of the tii part *)

NotInvoked == [tx |-> "", profile |-> Absent, res |-> "none"]
NoOp == [op |-> "none", arg |-> EmptyMap]

Mutated(op, arg) ==
           /\ ops' = ops + 1
           /\ lastOp' = [op |-> op, arg |-> arg]
           /\ readLog' = <<>>
           /\ filterRuns' = 0
           /\ UNCHANGED <<tii, invokeRes, request, errVars, callVars>>

Invoke(tx, profile) ==
    /\ inv = NoInvocation
    /\ invokeRes = NotInvoked
    /\ LET r == invoke(TiiFiles[tii], tx, profile) IN
         /\ invokeRes' = [tx |-> tx, profile |-> profile,
                          res |-> IF r.tag = "ok" THEN "ok" ELSE IF r.tag = "err" THEN r.e ELSE "panic"]
         /\ inv' = IF r.tag = "ok" THEN r.v ELSE NoInvocation
    /\ UNCHANGED <<tii, ops, readLog, filterRuns, lastOp, request, errVars, callVars>>

SetArg(name, value) ==
    /\ inv # NoInvocation /\ ops < MaxOps
    /\ inv' = set_arg(inv, name, value)
    /\ Mutated("set_arg", name :> value)

WithArg(name, value) ==
    /\ inv # NoInvocation /\ ops < MaxOps
    /\ inv' = set_arg(inv, name, value)
    /\ Mutated("with_arg", name :> value)

SetArgs(args) ==
    /\ inv # NoInvocation /\ ops < MaxOps
    /\ inv' = set_args(inv, args)
    /\ Mutated("set_args", EmptyMap)

WithArgs(args) ==
    /\ inv # NoInvocation /\ ops < MaxOps
    /\ inv' = set_args(inv, args)
    /\ Mutated("with_args", EmptyMap)

ReadParams ==
    /\ inv # NoInvocation /\ Len(readLog) < MaxReads
    /\ readLog' = Append(readLog, [op |-> "params", result |-> params(inv)])
    /\ UNCHANGED <<tii, inv, invokeRes, ops, filterRuns, lastOp, request, errVars, callVars>>

\* a read that forgets the parameters it has reported (the method takes &mut self)
ReadUnspecifiedDraining ==
    /\ inv # NoInvocation /\ Len(readLog) < MaxReads
    /\ readLog' = Append(readLog, [op |-> "unspecified", result |-> unspecified_params(inv)])
    /\ inv' = [inv EXCEPT !.params = [k \in DOMAIN inv.params \cap DOMAIN inv.args |-> inv.params[k]]]
    /\ filterRuns' = filterRuns + 1
    /\ UNCHANGED <<tii, invokeRes, ops, lastOp, request, errVars, callVars>>

ReadUnspecified ==
    /\ inv # NoInvocation /\ Len(readLog) < MaxReads
    /\ readLog' = Append(readLog, [op |-> "unspecified", result |-> unspecified_params(inv)])
    /\ filterRuns' = filterRuns + 1
    /\ UNCHANGED <<tii, inv, invokeRes, ops, lastOp, request, errVars, callVars>>

IntoResolveRequest ==
    /\ inv # NoInvocation /\ request = Absent
    /\ request' = Some(into_resolve_request(inv))
    /\ inv' = NoInvocation
    /\ UNCHANGED <<tii, invokeRes, ops, readLog, filterRuns, lastOp, errVars, callVars>>

InitTii ==
    /\ tii \in DOMAIN TiiFiles
    /\ inv = NoInvocation
    /\ invokeRes = NotInvoked
    /\ ops = 0
    /\ readLog = <<>>
    /\ filterRuns = 0
    /\ lastOp = NoOp
    /\ request = Absent

NextTii ==
    \/ \E tx \in TxNames, p \in {Absent} \cup {Some(n) : n \in ProfileNames} : Invoke(tx, p)
    \/ \E n \in ArgNames, v \in Values : SetArg(n, v)
    \/ \E n \in ArgNames, v \in Values : WithArg(n, v)
    \/ \E m \in ArgMaps : SetArgs(m)
    \/ \E m \in ArgMaps : WithArgs(m)
    \/ ReadParams
    \/ ReadUnspecified
    \/ IntoResolveRequest


-----------------------------------------------------------------------------
(* JSON values (serde_json::Value) *)

JNull == [k |-> "null"]
JBool(b) == [k |-> "bool", v |-> b]
JNum(n) == [k |-> "num", v |-> n]
JStr(s) == [k |-> "str", v |-> s]
JArr(items) == [k |-> "arr", v |-> items]
JObj(fields) == [k |-> "obj", v |-> fields]

-----------------------------------------------------------------------------
(* serde deserialization of the diagnostic payloads *)

\* Rust types, as far as the payloads use them
TString == [t |-> "String"]
TBool == [t |-> "bool"]
TUsize == [t |-> "usize"]
TOption(inner) == [t |-> "Option", inner |-> inner]
TVecString == [t |-> "Vec<String>"]
TMapStringString == [t |-> "HashMap<String, String>"]
TStruct(fields) == [t |-> "struct", fields |-> fields]
Field(name, ty) == [name |-> name, ty |-> ty]

SearchSpaceDiagnostic ==
    TStruct(<< Field("matched", TVecString),
               Field("by_address_count", TOption(TUsize)),
               Field("by_asset_class_count", TOption(TUsize)),
               Field("by_ref_count", TOption(TUsize)) >>)

InputQueryDiagnostic ==
    TStruct(<< Field("address", TOption(TString)),
               Field("min_amount", TMapStringString),
               Field("refs", TVecString),
               Field("support_many", TBool),
               Field("collateral", TBool) >>)

InputNotResolvedDiagnostic ==
    TStruct(<< Field("name", TString),
               Field("query", InputQueryDiagnostic),
               Field("search_space", SearchSpaceDiagnostic) >>)

UnsupportedTirDiagnostic ==
    TStruct(<< Field("provided", TString), Field("expected", TString) >>)

TxScriptFailureDiagnostic ==
    TStruct(<< Field("logs", TVecString) >>)

\* the Rust field ty, on the wire "type" (serde rename)
MissingTxArgRenamed ==
    TStruct(<< Field("key", TString), Field("expectedType", TString) >>)
MissingTxArgDiagnostic ==
    TStruct(<< Field("key", TString), Field("type", TString) >>)

RECURSIVE Deserialize(_, _)

\* a struct from a JSON object: a missing field is an error unless its type
\* is an Option; fields the struct does not name are ignored
StructFromObject(ty, obj) ==
    LET n == Len(ty.fields)
        r == [i \in 1..n |->
                LET f == ty.fields[i] IN
                IF f.name \in DOMAIN obj THEN Deserialize(f.ty, obj[f.name])
                ELSE IF f.ty.t = "Option" THEN Ok(Absent)
                ELSE Err("missing field")]
    IN  IF \E i \in 1..n : r[i].tag = "err" THEN Err("invalid payload")
        ELSE Ok([name \in {ty.fields[i].name : i \in 1..n} |->
                   r[CHOOSE i \in 1..n : ty.fields[i].name = name].v])

\* a struct from a JSON array: its fields in declaration order, no more, no less
StructFromArray(ty, items) ==
    LET n == Len(ty.fields)
        r == [i \in 1..n |-> Deserialize(ty.fields[i].ty, items[i])]
    IN  IF Len(items) # n THEN Err("invalid length")
        ELSE IF \E i \in 1..n : r[i].tag = "err" THEN Err("invalid payload")
        ELSE Ok([name \in {ty.fields[i].name : i \in 1..n} |->
                   r[CHOOSE i \in 1..n : ty.fields[i].name = name].v])

\* serde_json::from_value::<T>
Deserialize(ty, json) ==
    CASE ty.t = "String" ->
           IF json.k = "str" THEN Ok(json.v) ELSE Err("invalid type")
      [] ty.t = "bool" ->
           IF json.k = "bool" THEN Ok(json.v) ELSE Err("invalid type")
      [] ty.t = "Value" -> Ok(json)
      [] ty.t = "i32" ->
           IF json.k = "num" /\ json.v >= -2147483647 - 1 /\ json.v <= 2147483647 THEN Ok(json.v)
           ELSE Err("invalid type")
      [] ty.t = "usize" ->
           IF json.k = "num" /\ json.v >= 0 THEN Ok(json.v) ELSE Err("invalid type")
      [] ty.t = "Option" ->
           IF json.k = "null" THEN Ok(Absent)
           ELSE LET r == Deserialize(ty.inner, json) IN
                IF r.tag = "ok" THEN Ok(Some(r.v)) ELSE r
      [] ty.t = "Vec<String>" ->
           IF json.k = "arr" /\ \A i \in DOMAIN json.v : json.v[i].k = "str"
           THEN Ok([i \in DOMAIN json.v |-> json.v[i].v])
           ELSE Err("invalid type")
      [] ty.t = "HashMap<String, String>" ->
           IF json.k = "obj" /\ \A f \in DOMAIN json.v : json.v[f].k = "str"
           THEN Ok([f \in DOMAIN json.v |-> json.v[f].v])
           ELSE Err("invalid type")
      [] ty.t = "struct" ->
           IF json.k = "obj" THEN StructFromObject(ty, json.v)
           ELSE IF json.k = "arr" THEN StructFromArray(ty, json.v)
           ELSE Err("invalid type")

-----------------------------------------------------------------------------
(* trp::Error and the conversion From<JsonRpcError> *)

JsonRpcError(code, message, data) == [code |-> code, message |-> message, data |-> data]

GenericRpcError(code, message, data) ==
    [variant |-> "GenericRpcError", code |-> code, message |-> message, data |-> data]
Diagnostic(variant, payload) == [variant |-> variant, payload |-> payload]

\* Error::generic
GenericWithoutData(payload) == GenericRpcError(payload.code, payload.message, Absent)
generic(payload) == GenericRpcError(payload.code, payload.message, payload.data)

\* expect_json_rpc_error_data::<T>
expect_json_rpc_error_data(payload, ty) ==
    IF payload.data = Absent THEN Err(generic(payload))
    ELSE LET data == Deserialize(ty, payload.data.v) IN
         IF data.tag # "ok" THEN Err(generic(payload))
         ELSE Ok(data.v)

Typed(variant, r) == IF r.tag = "ok" THEN Diagnostic(variant, r.v) ELSE r.e

\* impl From<JsonRpcError> for Error
FromShiftedCodes(error) ==
    CASE error.code = -32000 -> Typed("MissingTxArg", expect_json_rpc_error_data(error, MissingTxArgDiagnostic))
      [] error.code = -32001 -> Typed("UnsupportedTir", expect_json_rpc_error_data(error, UnsupportedTirDiagnostic))
      [] error.code = -32002 -> Typed("InputNotResolved", expect_json_rpc_error_data(error, InputNotResolvedDiagnostic))
      [] error.code = -32003 -> Typed("TxScriptFailure", expect_json_rpc_error_data(error, TxScriptFailureDiagnostic))
      [] OTHER -> generic(error)
From(error) ==
    CASE error.code = -32000 -> Typed("UnsupportedTir", expect_json_rpc_error_data(error, UnsupportedTirDiagnostic))
      [] error.code = -32001 -> Typed("MissingTxArg", expect_json_rpc_error_data(error, MissingTxArgDiagnostic))
      [] error.code = -32002 -> Typed("InputNotResolved", expect_json_rpc_error_data(error, InputNotResolvedDiagnostic))
      [] error.code = -32003 -> Typed("TxScriptFailure", expect_json_rpc_error_data(error, TxScriptFailureDiagnostic))
      [] OTHER -> generic(error)

-----------------------------------------------------------------------------
(* Inputs of the conversion *)

\* every JSON object over a set of field names, each present field taking a
\* value of its pool
ObjectsOver(pools) ==
    {JObj(f) : f \in UNION {[S -> UNION {pools[n] : n \in S}] : S \in SUBSET DOMAIN pools}}

WellPooled(pools, obj) == \A n \in DOMAIN obj.v : obj.v[n] \in pools[n]

Objects(pools) == {o \in ObjectsOver(pools) : WellPooled(pools, o)}

Scalars == {JStr("a"), JStr("b"), JNum(1)}

GoodQuery ==
    JObj([address |-> JStr("addr1"), min_amount |-> JObj([lovelace |-> JStr("5")]),
          refs |-> JArr(<<JStr("r#0")>>), support_many |-> JBool(FALSE), collateral |-> JBool(TRUE)])
QueryWithoutAddress ==
    JObj([min_amount |-> JObj(<<>>), refs |-> JArr(<<>>),
          support_many |-> JBool(TRUE), collateral |-> JBool(FALSE)])
QueryWithoutRefs ==
    JObj([address |-> JNull, min_amount |-> JObj(<<>>),
          support_many |-> JBool(TRUE), collateral |-> JBool(FALSE)])

GoodSpace ==
    JObj([matched |-> JArr(<<JStr("r#0")>>), by_address_count |-> JNum(2),
          by_asset_class_count |-> JNull, by_ref_count |-> JNum(0)])
SpaceOnlyMatched == JObj([matched |-> JArr(<<>>)])
SpaceNegativeCount == JObj([matched |-> JArr(<<>>), by_ref_count |-> JNum(-1)])

Queries == {GoodQuery, QueryWithoutAddress, QueryWithoutRefs, JStr("a")}
Spaces == {GoodSpace, SpaceOnlyMatched, SpaceNegativeCount, JNull}
Logs == {JArr(<<>>), JArr(<<JStr("l1")>>), JArr(<<JStr("l1"), JStr("l2")>>),
         JArr(<<JNum(1)>>), JStr("a"), JNull}

DataValues ==
    Objects([provided |-> Scalars \cup {JNull}, expected |-> Scalars \cup {JNull}])
      \cup Objects([key |-> Scalars, type |-> Scalars, expectedType |-> Scalars])
      \cup Objects([name |-> {JStr("a"), JNum(1)}, query |-> Queries,
                    search_space |-> Spaces, searchSpaceSummary |-> Spaces])
      \cup Objects([logs |-> Logs])
      \cup {JStr("a"), JNum(1), JBool(TRUE), JArr(<<>>), JArr(<<JStr("a")>>),
            JArr(<<JStr("a"), JStr("b")>>), JArr(<<JArr(<<JStr("l1")>>)>>)}

\* data: Option<Value>; a JSON null arrives as None
DataOptions == {Absent} \cup {Some(d) : d \in DataValues}

Codes == {-32000, -32001, -32002, -32003, -32004, -32700, 0, 32001}
Messages == {"m1", "m2"}

NotConverted == [variant |-> "none"]

-----------------------------------------------------------------------------
(* Action of the conversion *)

Convert ==
    /\ converted = NotConverted
    /\ converted' = From(rpcError)
    /\ UNCHANGED <<rpcError, tiiVars, callVars>>

InitErr ==
    /\ rpcError \in {JsonRpcError(c, m, d) : c \in Codes, m \in Messages, d \in DataOptions}
    /\ converted = NotConverted

IdleErr ==
    /\ rpcError = JsonRpcError(0, "", Absent)
    /\ converted = NotConverted

IdleTii ==
    /\ tii = "transfer"
    /\ inv = NoInvocation
    /\ invokeRes = NotInvoked
    /\ ops = 0
    /\ readLog = <<>>
    /\ filterRuns = 0
    /\ lastOp = NoOp
    /\ request = Absent

NextErr == Convert

-----------------------------------------------------------------------------
(* trp::Client *)

\* header names and values, as ASCII codes
hContentType == <<99, 111, 110, 116, 101, 110, 116, 45, 116, 121, 112, 101>> \* content-type
vJson == <<97, 112, 112, 108, 105, 99, 97, 116, 105, 111, 110, 47, 106, 115, 111, 110>> \* application/json
hXApi == <<88, 45, 65, 112, 105>>       \* X-Api
hSpaced == <<97, 32, 98>>               \* "a b": a space is no token character
hNote == <<120, 45, 110, 111, 116, 101>> \* x-note
vKey == <<107, 49>>                     \* k1
vBroken == <<97, 10, 98>>               \* "a\nb": a line break

\* HeaderName::from_bytes accepts a non-empty sequence of token characters
\* (and stores the name lower-cased)
TokenChars == (48..57) \cup (65..90) \cup (97..122)
                \cup {33, 35, 36, 37, 38, 39, 42, 43, 45, 46, 94, 95, 96, 124, 126}
ValidHeaderName(s) == Len(s) > 0 /\ \A i \in DOMAIN s : s[i] \in TokenChars

\* HeaderValue::from_str accepts visible ASCII and tab
ValidHeaderValue(s) == \A i \in DOMAIN s : s[i] \in (32..126) \cup {9}

\* the header map Client::call builds: content-type first, then every user
\* entry whose name and value are valid, inserted under the lower-cased name;
\* entries whose names collide are inserted in the HashMap's iteration order,
\* which is not fixed, so the result is a set of possible maps.
UserEntriesUnchecked(options) ==
    IF options.headers = Absent THEN {}
    ELSE {<<to_lowercase(n), options.headers.v[n]>> : n \in DOMAIN options.headers.v}
UserEntries(options) ==
    IF options.headers = Absent THEN {}
    ELSE {<<to_lowercase(n), options.headers.v[n]>> : n \in
            {m \in DOMAIN options.headers.v :
               ValidHeaderName(m) /\ ValidHeaderValue(options.headers.v[m])}}

PossibleHeaders(options) ==
    LET user == UserEntries(options)
        names == {hContentType} \cup {e[1] : e \in user}
        candidates(n) == IF \E e \in user : e[1] = n
                         THEN {e[2] : e \in {x \in user : x[1] = n}}
                         ELSE {vJson}
    IN  {h \in [names -> UNION {candidates(n) : n \in names}] :
           \A n \in names : h[n] \in candidates(n)}

ClientConfigs ==
    { [endpoint |-> "https://trp.example.com", headers |-> Absent, env_args |-> Absent],
      [endpoint |-> "https://trp.example.com",
       headers |-> Some(hXApi :> vKey @@ hSpaced :> vKey @@ hNote :> vBroken),
       env_args |-> Absent] }

\* Uuid::new_v4().to_string(): 122 random bits per call; a draw is modelled as
\* a value that no earlier call drew
Uuids == {ToString(n) : n \in 1..MaxCalls}

JsonRpcRequest(method, callParams, id) ==
    [jsonrpc |-> "2.0", method |-> method, params |-> callParams, id |-> id]

\* wire types of the responses
TValue == [t |-> "Value"]
TI32 == [t |-> "i32"]

JsonRpcErrorStruct ==
    TStruct(<< Field("code", TI32), Field("message", TString), Field("data", TOption(TValue)) >>)
JsonRpcResponse ==
    TStruct(<< Field("result", TOption(TValue)), Field("error", TOption(JsonRpcErrorStruct)) >>)
TxEnvelope ==
    TStruct(<< Field("tx", TString), Field("hash", TString) >>)
SubmitResponse ==
    TStruct(<< Field("hash", TString) >>)

NetworkError == [variant |-> "NetworkError"]
HttpError(status) == [variant |-> "HttpError", status |-> status]
DeserializationError == [variant |-> "DeserializationError"]
UnknownError == [variant |-> "UnknownError"]

\* StatusCode::is_success
is_success(status) == status \in 200..299

\* Client::call from the point where the body of a 2xx response is awaited:
\* response.json() fails when the body cannot be read or is not the envelope
ParseFirstResult(body) ==
    IF body.k # "json" THEN Err(DeserializationError)
    ELSE LET parsed == Deserialize(JsonRpcResponse, body.v) IN
         IF parsed.tag # "ok" THEN Err(DeserializationError)
         ELSE IF parsed.v.result # Absent THEN Ok(parsed.v.result.v)
         ELSE IF parsed.v.error # Absent THEN Err(From(parsed.v.error.v))
         ELSE Err(UnknownError)
parse_response(body) ==
    IF body.k # "json" THEN Err(DeserializationError)
    ELSE LET parsed == Deserialize(JsonRpcResponse, body.v) IN
         IF parsed.tag # "ok" THEN Err(DeserializationError)
         ELSE IF parsed.v.error # Absent THEN Err(From(parsed.v.error.v))
         ELSE IF parsed.v.result = Absent THEN Err(UnknownError)
         ELSE Ok(parsed.v.result.v)

\* Client::resolve / Client::submit after call returned
typed_result(op, outcome) ==
    IF outcome.tag # "ok" THEN outcome
    ELSE LET out == Deserialize(IF op = "resolve" THEN TxEnvelope ELSE SubmitResponse, outcome.v) IN
         IF out.tag = "ok" THEN out ELSE Err(DeserializationError)

\* what BytesEnvelope::from_hex(&tx.tx) may return to submit: the envelope of
\* the text, or an error for text it does not accept
FromHexResults == {Ok("84a4"), Err("FromHexError")}

-----------------------------------------------------------------------------
(* Inputs of the client *)

TxResult == JObj([tx |-> JStr("84a4"), hash |-> JStr("h1")])
MissingArgError ==
    JObj([code |-> JNum(-32001), message |-> JStr("missing"),
          data |-> JObj([key |-> JStr("quantity"), type |-> JStr("Int")])])

Unreadable == [k |-> "unreadable"]
Json(v) == [k |-> "json", v |-> v]

Bodies ==
    { Unreadable,
      Json(JObj(<<>>)),
      Json(JObj([result |-> TxResult])),
      Json(JObj([error |-> MissingArgError])),
      Json(JObj([result |-> TxResult, error |-> MissingArgError])),
      Json(JObj([result |-> JNum(1), error |-> JStr("oops")])) }

\* status and body of the responses: every body under 200, and under 404 a
\* body that cannot be read and one that holds a result
Responses ==
    {<<200, b>> : b \in Bodies}
      \cup {<<404, b>> : b \in {Unreadable, Json(JObj([result |-> TxResult]))}}

Calls == 1..MaxCalls

IdleCall ==
    [pc |-> "idle", op |-> "none", request |-> Absent, sent |-> 0,
     response |-> Absent, outcome |-> Absent, result |-> Absent]

-----------------------------------------------------------------------------
(* Actions of the client *)

\* Client::call up to the first await: headers, body with a new random id,
\* and the POST handed to the transport.  call is entered through resolve and
\* submit; what call itself returns is kept in outcome, what they return in
\* result.
IssuedIds == {calls[d].request.v.body.id : d \in {e \in DOMAIN calls : calls[e].request # Absent}}

\* a call that takes its id from the client instead of drawing one
SendSharedId(c, op, method, callParams) ==
    \E h \in PossibleHeaders(client) :
      calls' = [calls EXCEPT ![c] =
                  [@ EXCEPT !.pc = "sending", !.op = op, !.sent = @ + 1,
                            !.request = Some([endpoint |-> client.endpoint, headers |-> h,
                                              body |-> JsonRpcRequest(method, callParams, client.endpoint)])]]

Send(c, op, method, callParams) ==
    \E id \in Uuids \ IssuedIds, h \in PossibleHeaders(client) :
      calls' = [calls EXCEPT ![c] =
                  [@ EXCEPT !.pc = "sending", !.op = op, !.sent = @ + 1,
                            !.request = Some([endpoint |-> client.endpoint, headers |-> h,
                                              body |-> JsonRpcRequest(method, callParams, id)])]]

Resolve(c) ==
    /\ calls[c].pc = "idle"
    /\ Send(c, "resolve", "trp.resolve",
            JObj([tir |-> JStr("tir"), args |-> JObj(<<>>),
                  env |-> IF client.env_args = Absent THEN JNull ELSE client.env_args.v]))
    /\ UNCHANGED <<client, tiiVars, errVars>>

\* Client::submit: unwrap of from_hex aborts before any request is built
Submit(c, from_hex) ==
    /\ calls[c].pc = "idle"
    /\ IF from_hex.tag = "ok"
       THEN Send(c, "submit", "trp.submit",
                 JObj([tx |-> JObj([content |-> JStr(from_hex.v), encoding |-> JStr("hex")]),
                       witnesses |-> JArr(<<>>)]))
       ELSE calls' = [calls EXCEPT ![c] = [@ EXCEPT !.pc = "panicked", !.op = "submit"]]
    /\ UNCHANGED <<client, tiiVars, errVars>>

Finish(c, outcome) ==
    [calls[c] EXCEPT !.pc = "done", !.outcome = Some(outcome),
                     !.result = Some(typed_result(calls[c].op, outcome))]

\* send().await fails: the error is returned, nothing is sent again
SendFailsRetrying(c) ==
    /\ calls[c].pc = "sending"
    /\ calls' = [calls EXCEPT ![c] =
                   IF @.sent < 2 THEN [@ EXCEPT !.sent = @ + 1]
                   ELSE Finish(c, Err(NetworkError))]
    /\ UNCHANGED <<client, tiiVars, errVars>>
SendFails(c) ==
    /\ calls[c].pc = "sending"
    /\ calls' = [calls EXCEPT ![c] = Finish(c, Err(NetworkError))]
    /\ UNCHANGED <<client, tiiVars, errVars>>

\* send().await yields a response: the status is checked before the body is read
HeadArrives(c, status, body) ==
    /\ calls[c].pc = "sending"
    /\ LET r == [status |-> status, body |-> body] IN
       calls' = [calls EXCEPT ![c] =
                   IF ~is_success(status)
                   THEN [Finish(c, Err(HttpError(status))) EXCEPT !.response = Some(r)]
                   ELSE [@ EXCEPT !.pc = "reading", !.response = Some(r)]]
    /\ UNCHANGED <<client, tiiVars, errVars>>

\* response.json().await completes
BodyRead(c) ==
    /\ calls[c].pc = "reading"
    /\ calls' = [calls EXCEPT ![c] = Finish(c, parse_response(calls[c].response.v.body))]
    /\ UNCHANGED <<client, tiiVars, errVars>>

InitCall ==
    /\ client \in ClientConfigs
    /\ calls = [c \in Calls |-> IdleCall]

IdleClient ==
    /\ client = [endpoint |-> "", headers |-> Absent, env_args |-> Absent]
    /\ calls = [c \in Calls |-> IdleCall]

NextCall ==
    \E c \in Calls :
      \/ Resolve(c)
      \/ \E r \in FromHexResults : Submit(c, r)
      \/ SendFails(c)
      \/ \E r \in Responses : HeadArrives(c, r[1], r[2])
      \/ BodyRead(c)

-----------------------------------------------------------------------------
(* Specifications *)

\* the argument binding: Protocol::invoke and the Invocation's methods
Init == InitTii /\ IdleErr /\ IdleClient
Spec == Init /\ [][NextTii]_vars

\* the error conversion applied to one JSON-RPC error object
InitConversion == IdleTii /\ InitErr /\ IdleClient
SpecErr == InitConversion /\ [][NextErr]_vars

\* the client: concurrent invocations of call, resolve and submit
InitClient == IdleTii /\ IdleErr /\ InitCall
SpecCall == InitClient /\ [][NextCall]_vars

-----------------------------------------------------------------------------
(* Properties of the argument binding (tii) *)

Live == inv # NoInvocation

\* the keys of a binding that name parameter p, in any letter case
BindingsOf(args, p) == {k \in DOMAIN args : to_lowercase(k) = to_lowercase(p)}

\* the parameters the invoked transaction declares: parties, environment
\* schema properties and the transaction's params schema properties
Declared ==
    LET file == TiiFiles[tii]
        t == file.transactions[invokeRes.tx]
    IN  file.parties
          \cup (IF file.environment = Absent THEN {} ELSE DOMAIN file.environment.v.object.v)
          \cup DOMAIN t.params.object.v

Lowered(S) == {to_lowercase(n) : n \in S}

\* C1: set_arg/with_arg under a name, followed by set_arg/with_arg under a
\* name that differs from it at most in letter case, leaves exactly one
\* binding for that parameter: the lower-cased key, holding the second value.
C1_SecondSetArgLeavesOneBinding ==
    [][\A n \in ArgNames, v \in Values :
         ( /\ lastOp.op \in {"set_arg", "with_arg"}
           /\ \E m \in DOMAIN lastOp.arg : to_lowercase(m) = to_lowercase(n)
           /\ (SetArg(n, v) \/ WithArg(n, v)) )
         => /\ BindingsOf(inv'.args, n) = {to_lowercase(n)}
            /\ inv'.args[to_lowercase(n)] = v]_vars

\* C2: every key of the argument binding is lower-case, whatever call put it
\* there (invoke's profile defaults, set_arg, set_args, with_arg, with_args),
\* so no two keys differ only in case.
C2_KeysAreNormalized ==
    Live => /\ \A k \in DOMAIN inv.args : k = to_lowercase(k)
            /\ \A k1, k2 \in DOMAIN inv.args : to_lowercase(k1) = to_lowercase(k2) => k1 = k2

\* C8: params() returns the declared parameter set whatever has been bound,
\* and unspecified_params() returns exactly the declared parameters that no
\* profile default and no explicit argument has bound.
C8_ReadsReportDeclaredAndUnbound ==
    Live =>
      \A i \in 1..Len(readLog) :
        LET r == readLog[i] IN
        /\ r.op = "params" => Lowered(DOMAIN r.result) = Lowered(Declared)
        /\ r.op = "unspecified" =>
             Lowered(DOMAIN r.result) = {p \in Lowered(Declared) : BindingsOf(inv.args, p) = {}}

-----------------------------------------------------------------------------
(* Properties of the error conversion (trp) *)

Converted == converted # NotConverted

KnownCodes == {-32000, -32001, -32002, -32003}

\* the error-code taxonomy: code -> variant and payload type
VariantOf(code) ==
    CASE code = -32000 -> "UnsupportedTir"
      [] code = -32001 -> "MissingTxArg"
      [] code = -32002 -> "InputNotResolved"
      [] code = -32003 -> "TxScriptFailure"

PayloadOf(code) ==
    CASE code = -32000 -> UnsupportedTirDiagnostic
      [] code = -32001 -> MissingTxArgDiagnostic
      [] code = -32002 -> InputNotResolvedDiagnostic
      [] code = -32003 -> TxScriptFailureDiagnostic

Deserializable(code, data) ==
    data # Absent /\ Deserialize(PayloadOf(code), data.v).tag = "ok"

Strings(jsonArray) == [i \in DOMAIN jsonArray.v |-> jsonArray.v[i].v]

\* the payload fields of a typed diagnostic against an object-shaped data
FieldsCarried(code, payload, obj) ==
    CASE code = -32000 ->
           payload.provided = obj.provided.v /\ payload.expected = obj.expected.v
      [] code = -32001 ->
           payload.key = obj.key.v /\ payload.type = obj.type.v
      [] code = -32002 ->
           /\ payload.name = obj.name.v
           /\ payload.query.refs = Strings(obj.query.v.refs)
           /\ payload.query.support_many = obj.query.v.support_many.v
           /\ payload.query.collateral = obj.query.v.collateral.v
           /\ payload.search_space.matched = Strings(obj.search_space.v.matched)
      [] code = -32003 ->
           payload.logs = Strings(obj.logs)

\* C3: the conversion is total and keyed by code: a known code whose data
\* deserializes yields that code's variant carrying the data's fields, the
\* four variants are pairwise distinct, and any other code yields
\* GenericRpcError with the original code, message and data.
C3_TaxonomyByCode ==
    /\ \A c1, c2 \in KnownCodes : VariantOf(c1) = VariantOf(c2) => c1 = c2
    /\ Converted =>
         IF rpcError.code \in KnownCodes
         THEN Deserializable(rpcError.code, rpcError.data) =>
                /\ converted.variant = VariantOf(rpcError.code)
                /\ rpcError.data.v.k = "obj" =>
                     FieldsCarried(rpcError.code, converted.payload, rpcError.data.v.v)
         ELSE converted = GenericRpcError(rpcError.code, rpcError.message, rpcError.data)

C3_Witness ==
    /\ Converted
    /\ rpcError.code = -32002
    /\ converted.variant = "InputNotResolved"
    /\ converted.payload.query.address = Absent
    /\ converted.payload.search_space.by_address_count = Some(2)

\* C4: a known code whose data is absent or does not deserialize into the
\* code's payload yields GenericRpcError with the unchanged code, message and
\* data, never a typed diagnostic.
C4_MalformedFallsBackToGeneric ==
    (Converted /\ rpcError.code \in KnownCodes
               /\ ~Deserializable(rpcError.code, rpcError.data))
      => converted = GenericRpcError(rpcError.code, rpcError.message, rpcError.data)

C4_Witness ==
    /\ Converted
    /\ rpcError.code = -32000
    /\ rpcError.data # Absent
    /\ rpcError.data.v.k = "obj"
    /\ DOMAIN rpcError.data.v.v = {"provided"}
    /\ converted.variant = "GenericRpcError"
    /\ converted.data = rpcError.data

WellFormedUnder(ty, json) == Deserialize(ty, json).tag = "ok"

\* C5 as stated: -32001 with data {key, expectedType} yields the missing
\* argument variant and -32002 with data {name, query, searchSpaceSummary}
\* yields the input-not-resolved variant, all fields populated.
C5_DocumentedFieldNames ==
    (Converted /\ rpcError.data # Absent /\ rpcError.data.v.k = "obj") =>
      LET obj == rpcError.data.v.v IN
      /\ ( /\ rpcError.code = -32001
           /\ DOMAIN obj = {"key", "expectedType"}
           /\ obj.key.k = "str" /\ obj.expectedType.k = "str" )
         => /\ converted.variant = "MissingTxArg"
            /\ converted.payload.key = obj.key.v
            /\ converted.payload.type = obj.expectedType.v
      /\ ( /\ rpcError.code = -32002
           /\ DOMAIN obj = {"name", "query", "searchSpaceSummary"}
           /\ obj.name.k = "str"
           /\ WellFormedUnder(InputQueryDiagnostic, obj.query)
           /\ WellFormedUnder(SearchSpaceDiagnostic, obj.searchSpaceSummary) )
         => /\ converted.variant = "InputNotResolved"
            /\ converted.payload.name = obj.name.v

\* C5 amended: the accepted field names are those of the Rust structs: -32001
\* needs {key, type} and -32002 needs {name, query, search_space}; an object
\* that spells them expectedType / searchSpaceSummary instead is not accepted
\* and falls back to GenericRpcError.
C5_WireFieldNames ==
    (Converted /\ rpcError.data # Absent /\ rpcError.data.v.k = "obj") =>
      LET obj == rpcError.data.v.v IN
      /\ rpcError.code = -32001 =>
           /\ ( /\ {"key", "type"} \subseteq DOMAIN obj
                /\ obj.key.k = "str" /\ obj.type.k = "str" )
              => /\ converted.variant = "MissingTxArg"
                 /\ converted.payload.key = obj.key.v
                 /\ converted.payload.type = obj.type.v
           /\ "type" \notin DOMAIN obj => converted.variant = "GenericRpcError"
      /\ rpcError.code = -32002 =>
           /\ ( /\ {"name", "query", "search_space"} \subseteq DOMAIN obj
                /\ obj.name.k = "str"
                /\ WellFormedUnder(InputQueryDiagnostic, obj.query)
                /\ WellFormedUnder(SearchSpaceDiagnostic, obj.search_space) )
              => /\ converted.variant = "InputNotResolved"
                 /\ converted.payload.name = obj.name.v
                 /\ converted.payload.search_space.matched = Strings(obj.search_space.v.matched)
           /\ "search_space" \notin DOMAIN obj => converted.variant = "GenericRpcError"

C5_Witness ==
    /\ Converted
    /\ rpcError.code = -32001
    /\ rpcError.data # Absent /\ rpcError.data.v.k = "obj"
    /\ DOMAIN rpcError.data.v.v = {"key", "type", "expectedType"}
    /\ converted.variant = "MissingTxArg"
    /\ converted.payload.type # rpcError.data.v.v.expectedType.v

-----------------------------------------------------------------------------
(* Properties of the client (trp) *)

Present(obj, f) == f \in DOMAIN obj /\ obj[f] # JNull

\* the body of a response is the JSON-RPC envelope
IsEnvelope(body) ==
    body.k = "json" /\ Deserialize(JsonRpcResponse, body.v).tag = "ok"

TransportErrors == {"NetworkError", "HttpError", "DeserializationError", "UnknownError"}

\* what call returns for a response, check by check in the stated order
Classified(call) ==
    LET out == call.outcome.v IN
    IF call.response = Absent THEN out = Err(NetworkError)
    ELSE LET status == call.response.v.status
             body == call.response.v.body
         IN  IF status < 200 \/ status > 299 THEN out = Err(HttpError(status))
             ELSE IF ~IsEnvelope(body) THEN out = Err(DeserializationError)
             ELSE IF Present(body.v.v, "error")
                  THEN LET e == body.v.v.error.v IN
                       /\ out.tag = "err"
                       /\ out.e.variant \notin TransportErrors
                       /\ out.e = From(JsonRpcError(e.code.v, e.message.v,
                                                    IF Present(e, "data") THEN Some(e.data) ELSE Absent))
             ELSE IF ~Present(body.v.v, "result") THEN out = Err(UnknownError)
             ELSE out = Ok(body.v.v.result)

\* C6: call classifies a response by the first failing check: transport
\* failure, then non-2xx status (whatever the body), then a body that is not
\* the envelope, then a present error (even beside a result), then a missing
\* result; Ok(result) only when all five checks pass.
C6_FirstFailingCheck ==
    \A c \in Calls : calls[c].pc = "done" => Classified(calls[c])

C6_Witness ==
    \E c \in Calls :
      /\ calls[c].pc = "done"
      /\ calls[c].response # Absent
      /\ calls[c].response.v.status = 200
      /\ calls[c].response.v.body = Json(JObj([result |-> TxResult, error |-> MissingArgError]))
      /\ calls[c].outcome.v.tag = "err"
      /\ calls[c].outcome.v.e.variant = "MissingTxArg"

\* C7: a call hands at most one request to the transport; once it has
\* returned, with a failure or a result, exactly one was sent, and a submit
\* that aborted before call sent none.
C7_AtMostOneRequest ==
    \A c \in Calls :
      /\ calls[c].sent <= 1
      /\ calls[c].pc \in {"sending", "reading", "done"} => calls[c].sent = 1
      /\ calls[c].pc = "done" => calls[c].outcome # Absent /\ calls[c].result # Absent
      /\ calls[c].pc \in {"idle", "panicked"} => calls[c].sent = 0

C7_Witness ==
    \E c, d \in Calls :
      /\ c # d
      /\ calls[c].pc = "done" /\ calls[c].outcome = Some(Err(NetworkError)) /\ calls[c].sent = 1
      /\ calls[d].pc = "done" /\ calls[d].outcome = Some(Err(HttpError(404))) /\ calls[d].sent = 1

-----------------------------------------------------------------------------
(* Properties of Protocol::invoke *)

Invoked == invokeRes # NotInvoked

\* a schema a well-formed definition may hold: an object part whose
\* properties all declare a supported type
WellFormedSchema(schema) ==
    /\ schema.object # Absent
    /\ \A key \in DOMAIN schema.object.v : from_json_schema(schema.object.v[key]).tag = "ok"

\* C11: invoke fails fast with an error value and never aborts: UnknownTx for
\* an unknown transaction, UnknownProfile for an unknown profile of a known
\* transaction, InvalidParamType for an unsupported type declaration, an
\* error value for a schema without object part; no Invocation is returned
\* with an error; invoke(tx, None) succeeds on a well-formed definition.
C11_InvokeFailsFastWithoutAborting ==
    Invoked =>
      LET file == TiiFiles[tii]
          tx == invokeRes.tx
          profile == invokeRes.profile
      IN  /\ invokeRes.res # "panic"
          /\ invokeRes.res # "ok" => inv = NoInvocation
          /\ tx \notin DOMAIN file.transactions => invokeRes.res = "UnknownTx"
          /\ ( /\ tx \in DOMAIN file.transactions
               /\ profile # Absent /\ profile.v \notin DOMAIN file.profiles )
             => invokeRes.res = "UnknownProfile"
          /\ ( /\ tx \in DOMAIN file.transactions
               /\ profile = Absent
               /\ file.environment # Absent => WellFormedSchema(file.environment.v)
               /\ WellFormedSchema(file.transactions[tx].params) )
             => invokeRes.res = "ok"

-----------------------------------------------------------------------------
(* Properties of the shared client *)

Requested(call) == call.request # Absent

\* C12: calls running concurrently on one Client do not interfere: no step
\* changes the client's options, a step of one call leaves every other call
\* as it was and a request once built stays as built; in every state a
\* request's endpoint and headers are the client's, no two calls carry the
\* same id, and two calls of the same operation that got the same response
\* have returned the same outcome.
C12_ConcurrentCallsAreIndependent ==
    /\ [](\A c \in Calls :
            /\ Requested(calls[c]) =>
                 /\ calls[c].request.v.endpoint = client.endpoint
                 /\ calls[c].request.v.headers \in PossibleHeaders(client)
                 /\ calls[c].request.v.body.method =
                      (IF calls[c].op = "resolve" THEN "trp.resolve" ELSE "trp.submit")
            /\ \A d \in Calls \ {c} :
                 /\ (Requested(calls[c]) /\ Requested(calls[d]))
                      => calls[c].request.v.body.id # calls[d].request.v.body.id
                 /\ ( /\ calls[c].pc = "done" /\ calls[d].pc = "done"
                      /\ calls[c].op = calls[d].op
                      /\ calls[c].response = calls[d].response )
                    => /\ calls[c].outcome = calls[d].outcome
                       /\ calls[c].result = calls[d].result)
    /\ [][ /\ client' = client
           /\ \A c \in Calls :
                /\ Requested(calls[c]) => calls'[c].request = calls[c].request
                /\ calls'[c] # calls[c] => \A d \in Calls \ {c} : calls'[d] = calls[d]
         ]_vars

C12_Witness ==
    \E c, d \in Calls :
      /\ c # d
      /\ calls[c].pc = "done" /\ calls[c].op = "resolve" /\ calls[c].outcome.v.tag = "ok"
      /\ calls[d].pc = "reading" /\ calls[d].op = "submit"
      /\ calls[c].request.v.body.id # calls[d].request.v.body.id
      /\ client.headers # Absent

-----------------------------------------------------------------------------
(* The caller's headers: one call on clients with every kind of header set *)

vOther == <<107, 50>>                   \* k2

HeaderConfigs ==
    ClientConfigs \cup
    { [endpoint |-> "https://trp.example.com", headers |-> Some(EmptyMap), env_args |-> Absent],
      \* two names that differ only in letter case
      [endpoint |-> "https://trp.example.com",
       headers |-> Some(hXApi :> vKey @@ to_lowercase(hXApi) :> vOther),
       env_args |-> Absent],
      \* the caller's own content-type
      [endpoint |-> "https://trp.example.com",
       headers |-> Some(hContentType :> vKey @@ hNote :> vOther),
       env_args |-> Absent],
      \* nothing valid: a name with a space, an empty name, a value with a line break
      [endpoint |-> "https://trp.example.com",
       headers |-> Some(hSpaced :> vKey @@ <<>> :> vKey @@ hNote :> vBroken),
       env_args |-> Absent] }

\* a slot of calls that is not used
UnusedCall == [IdleCall EXCEPT !.pc = "unused"]

InitHeaders ==
    /\ tii = "transfer"
    /\ inv = NoInvocation
    /\ invokeRes = NotInvoked
    /\ ops = 0
    /\ readLog = <<>>
    /\ filterRuns = 0
    /\ lastOp = NoOp
    /\ request = Absent
    /\ rpcError = JsonRpcError(0, "", Absent)
    /\ converted = NotConverted
    /\ client \in HeaderConfigs
    /\ calls = [c \in Calls |-> IF c = 1 THEN IdleCall ELSE UnusedCall]

SpecHeaders == InitHeaders /\ [][NextCall]_vars

\* the caller's entries, and those whose name and value are both valid
CallerEntries == IF client.headers = Absent THEN EmptyMap ELSE client.headers.v
ValidEntries ==
    {n \in DOMAIN CallerEntries : ValidHeaderName(n) /\ ValidHeaderValue(CallerEntries[n])}

Started(call) == call.pc \in {"sending", "reading", "done"}

\* C13 as stated: every started call has sent its request, the request
\* carries every valid entry of the caller with its value, and nothing of an
\* invalid entry.
C13_EveryValidHeaderIsSent ==
    \A c \in Calls :
      Started(calls[c]) =>
        /\ Requested(calls[c]) /\ calls[c].sent = 1
        /\ LET h == calls[c].request.v.headers IN
           /\ DOMAIN h = {hContentType} \cup {to_lowercase(n) : n \in ValidEntries}
           /\ \A n \in ValidEntries : h[to_lowercase(n)] = CallerEntries[n]

\* C13 amended: a valid entry is sent under its lower-cased name with its
\* value, unless another valid entry has the same name up to letter case:
\* then the header carries the value of one of them.  content-type is
\* application/json unless a valid entry of the caller names it.
C13_ValidHeadersSentUpToCase ==
    \A c \in Calls :
      Started(calls[c]) =>
        /\ Requested(calls[c]) /\ calls[c].sent = 1
        /\ LET h == calls[c].request.v.headers IN
           /\ DOMAIN h = {hContentType} \cup {to_lowercase(n) : n \in ValidEntries}
           /\ \A n \in ValidEntries :
                h[to_lowercase(n)] \in
                  {CallerEntries[m] : m \in {x \in ValidEntries : to_lowercase(x) = to_lowercase(n)}}
           /\ (\A n \in ValidEntries : to_lowercase(n) # hContentType) => h[hContentType] = vJson

C13_Witness ==
    \E c \in Calls :
      /\ calls[c].pc = "done"
      /\ calls[c].outcome.v.tag = "ok"
      /\ DOMAIN CallerEntries = {hXApi, to_lowercase(hXApi)}
      /\ calls[c].request.v.headers[to_lowercase(hXApi)] = vOther

-----------------------------------------------------------------------------
(* Explicit arguments and profile defaults *)

\* the defaults the profile given to invoke binds
ProfileDefaults ==
    IF invokeRes.res # "ok" \/ invokeRes.profile = Absent THEN EmptyMap
    ELSE LET env == TiiFiles[tii].profiles[invokeRes.profile.v].environment IN
         IF env = Absent THEN EmptyMap ELSE env.v

\* args holds value v as the only binding of parameter p
OnlyBinding(args, p, v) ==
    /\ Cardinality(BindingsOf(args, p)) = 1
    /\ \A k \in BindingsOf(args, p) : args[k] = v

\* C14: when the last mutation is set_arg/with_arg of a parameter the profile
\* pre-binds (named in any letter case), the explicit value is the only
\* binding of that parameter, in the Invocation and in the request
\* into_resolve_request makes of it.
C14_ExplicitArgReplacesProfileDefault ==
    lastOp.op \in {"set_arg", "with_arg"} =>
      \A q \in DOMAIN lastOp.arg, p \in DOMAIN ProfileDefaults :
        to_lowercase(q) = to_lowercase(p) =>
          /\ Live => OnlyBinding(inv.args, p, lastOp.arg[q])
          /\ request # Absent => OnlyBinding(request.v.args, p, lastOp.arg[q])

-----------------------------------------------------------------------------
(* The prototype and the declared parameters under mutation *)

\* invoke, the four mutators and into_resolve_request, without the reads
NextMutations ==
    \/ \E tx \in TxNames, p \in {Absent} \cup {Some(n) : n \in ProfileNames} : Invoke(tx, p)
    \/ \E n \in ArgNames, v \in Values : SetArg(n, v)
    \/ \E n \in ArgNames, v \in Values : WithArg(n, v)
    \/ \E m \in ArgMaps : SetArgs(m)
    \/ \E m \in ArgMaps : WithArgs(m)
    \/ IntoResolveRequest

SpecMutations == Init /\ [][NextMutations]_vars

\* args2 is args1 merged with given: the keys of given take its values, every
\* other key keeps its value, no key is lost or invented
Merged(args1, given, args2) ==
    /\ DOMAIN args2 = DOMAIN args1 \cup DOMAIN given
    /\ \A k \in DOMAIN given : args2[k] = given[k]
    /\ \A k \in DOMAIN args1 \ DOMAIN given : args2[k] = args1[k]

\* C15: no step changes the Protocol; once invoke has built the Invocation
\* from the transaction's tir and the declared parameters, no mutation
\* changes its tir or its params; set_args/with_args merge the given map
\* into the binding and set_arg/with_arg merge the single lower-cased key;
\* into_resolve_request returns that tir and exactly the binding.
C15_MutationsKeepPrototypeAndParams ==
    [][ /\ tii' = tii
        /\ (~Live /\ inv' # NoInvocation) =>
             /\ inv'.tir = TiiFiles[tii].transactions[invokeRes'.tx].tir
             /\ Lowered(DOMAIN inv'.params) =
                  Lowered(TiiFiles[tii].parties
                            \cup (IF TiiFiles[tii].environment = Absent THEN {}
                                  ELSE DOMAIN TiiFiles[tii].environment.v.object.v)
                            \cup DOMAIN TiiFiles[tii].transactions[invokeRes'.tx].params.object.v)
        /\ (Live /\ inv' # NoInvocation) =>
             /\ inv'.tir = inv.tir
             /\ inv'.params = inv.params
             /\ (ops' # ops /\ lastOp'.op \in {"set_args", "with_args"}) =>
                  \A m \in ArgMaps :
                    (SetArgs(m) \/ WithArgs(m)) => Merged(inv.args, m, inv'.args)
             /\ (ops' # ops /\ lastOp'.op \in {"set_arg", "with_arg"}) =>
                  \A n \in DOMAIN lastOp'.arg :
                    /\ SetArg(n, lastOp'.arg[n]) \/ WithArg(n, lastOp'.arg[n])
                    /\ Merged(inv.args, to_lowercase(n) :> lastOp'.arg[n], inv'.args)
        /\ (request = Absent /\ request' # Absent) =>
             /\ request'.v.tir = inv.tir
             /\ request'.v.tir = TiiFiles[tii].transactions[invokeRes.tx].tir
             /\ request'.v.args = inv.args
      ]_vars

C15_Witness ==
    /\ request # Absent
    /\ ops = 2
    /\ tii = "transfer"
    /\ request.v.tir = TirA
    /\ tax \in DOMAIN request.v.args /\ request.v.args[tax] = 7
    /\ Cardinality(DOMAIN request.v.args) >= 3

-----------------------------------------------------------------------------
(* Bound parameters and unspecified_params *)

\* C16: after set_arg/with_arg under a name q, no parameter whose declared
\* name equals q up to letter case is among those unspecified_params reports,
\* whether it was declared as a party, in the environment schema or in the
\* transaction's params schema.
C16_BoundParamIsNotReported ==
    (Live /\ lastOp.op \in {"set_arg", "with_arg"}) =>
      \A q \in DOMAIN lastOp.arg, i \in 1..Len(readLog) :
        readLog[i].op = "unspecified" =>
          \A p \in DOMAIN readLog[i].result : to_lowercase(p) # to_lowercase(q)

=============================================================================
